---- MODULE Spec2Model ----
(***************************************************************************)
(* Model of the networkD kernel: System (nodes + adjacency and its three   *)
(* registered maps), InterAction (construction-time validation of the      *)
(* user-supplied callables) and Model (composition root).                  *)
(***************************************************************************)
EXTENDS Integers, Sequences, FiniteSets, TLC

(***************************************************************************)
(* Bounds                                                                  *)
(***************************************************************************)
\* number of nodes of the network (rows of nodes, rows/columns of adj)
N == 3
\* width of every node's property vector
D == 1
\* largest multiplicity found in a caller-supplied initial adjacency
MaxMult == 2
\* number of calls made on one System
MaxSteps == 2
\* longest batch handed to apply_maps
MaxBatch == 2

(***************************************************************************)
(* Numbers.  A node property x is stored as the integer 2x, so that the    *)
(* non-integral value 0.5 is representable (as 1) and the cast numpy       *)
(* performs when it stores into an integer array can be modelled.          *)
(***************************************************************************)
\* the property values callers pass: 0.5 and 1.0
PropValues == 1..2

DTypes == {"int", "float"}

\* numpy's cast of a value on assignment into an array of dtype dt:
\* float keeps it, int truncates toward zero
CastTo(dt, x) ==
    IF dt = "float" THEN x
    ELSE IF x >= 0 THEN 2 * (x \div 2) ELSE 0 - 2 * ((0 - x) \div 2)

NodeIds == 0..(N - 1)

\* integer arguments used as indices: the first two nodes, the last node
\* under both its names (Python indexes from the end: -1 is N - 1), and one
\* past the end
Indices == {-1, 0, 1, N - 1, N}

\* Python/numpy indexing of an axis of length N
InRange(n) == n >= 0 - N /\ n < N
Norm(n) == IF n < 0 THEN n + N ELSE n

\* the vector of length len with x in every component
ConstVec(len, x) == [k \in 1..len |-> x]

\* the vectors handed to _change_node_property: of the right length, one
\* component short, one component long
Vectors == {ConstVec(len, x) : len \in (D - 1)..(D + 1), x \in PropValues}

(***************************************************************************)
(* System.__init__                                                         *)
(***************************************************************************)
\* np.eye(n): the default adjacency
Eye == [i \in NodeIds |-> [j \in NodeIds |-> IF i = j THEN 1 ELSE 0]]

\* caller-supplied adjacencies: symmetric, non-negative multiplicities
\* (diagonal d, every off-diagonal entry m)
GivenAdj(d, m) == [i \in NodeIds |-> [j \in NodeIds |-> IF i = j THEN d ELSE m]]

InitialAdjs == {GivenAdj(0, m) : m \in 0..MaxMult}

\* caller-supplied node matrix (N x D): node i carries the value i in every
\* component; integral, so it is storable under both dtypes
InitialNodes == [i \in NodeIds |-> ConstVec(D, 2 * i)]

(***************************************************************************)
(* The three registered maps.  Each returns the outcome of the call and    *)
(* the array it leaves behind.                                             *)
(***************************************************************************)
\* as add_edge, but only the [n1][n2] entry is incremented
add_edge_one_sided(a, n1, n2) ==
    IF n1 = n2 THEN [res |-> "SelfLoop", adj |-> a]
    ELSE IF ~InRange(n1) \/ ~InRange(n2) THEN [res |-> "IndexError", adj |-> a]
    ELSE LET i == Norm(n1)
             j == Norm(n2)
         IN  IF a[i][j] = 1 \/ a[j][i] = 1
             THEN [res |-> "DuplicateEdge", adj |-> a]
             ELSE [res |-> "ok", adj |-> [a EXCEPT ![i][j] = @ + 1]]

\* as add_edge, but the entries are incremented before the duplicate check
add_edge_write_first(a, n1, n2) ==
    IF n1 = n2 THEN [res |-> "SelfLoop", adj |-> a]
    ELSE IF ~InRange(n1) \/ ~InRange(n2) THEN [res |-> "IndexError", adj |-> a]
    ELSE LET i == Norm(n1)
             j == Norm(n2)
             a1 == [a EXCEPT ![i][j] = @ + 1]
             a2 == [a1 EXCEPT ![j][i] = @ + 1]
         IN  IF a[i][j] = 1 \/ a[j][i] = 1
             THEN [res |-> "DuplicateEdge", adj |-> a2]
             ELSE [res |-> "ok", adj |-> a2]

\* as add_edge, but the second increment repeats the first entry
add_edge_same_entry_twice(a, n1, n2) ==
    IF n1 = n2 THEN [res |-> "SelfLoop", adj |-> a]
    ELSE IF ~InRange(n1) \/ ~InRange(n2) THEN [res |-> "IndexError", adj |-> a]
    ELSE LET i == Norm(n1)
             j == Norm(n2)
         IN  IF a[i][j] = 1 \/ a[j][i] = 1
             THEN [res |-> "DuplicateEdge", adj |-> a]
             ELSE [res |-> "ok", adj |-> [a EXCEPT ![i][j] = @ + 2]]

add_edge(a, n1, n2) ==
    IF n1 = n2 THEN [res |-> "SelfLoop", adj |-> a]
    ELSE IF ~InRange(n1) \/ ~InRange(n2) THEN [res |-> "IndexError", adj |-> a]
    ELSE LET i == Norm(n1)
             j == Norm(n2)
         IN  IF a[i][j] = 1 \/ a[j][i] = 1
             THEN [res |-> "DuplicateEdge", adj |-> a]
             ELSE LET a1 == [a EXCEPT ![i][j] = @ + 1]
                      a2 == [a1 EXCEPT ![j][i] = @ + 1]
                  IN  [res |-> "ok", adj |-> a2]

\* as remove_edge, without the n1 == n2 check
remove_edge_no_self_check(a, n1, n2) ==
    IF ~InRange(n1) \/ ~InRange(n2) THEN [res |-> "IndexError", adj |-> a]
    ELSE LET i == Norm(n1)
             j == Norm(n2)
         IN  IF a[i][j] = 0 \/ a[j][i] = 0
             THEN [res |-> "MissingEdge", adj |-> a]
             ELSE LET a1 == [a EXCEPT ![i][j] = @ - 1]
                      a2 == [a1 EXCEPT ![j][i] = @ - 1]
                  IN  [res |-> "ok", adj |-> a2]

\* as remove_edge, without the check that the edge exists
remove_edge_no_edge_check(a, n1, n2) ==
    IF n1 = n2 THEN [res |-> "SelfLoop", adj |-> a]
    ELSE IF ~InRange(n1) \/ ~InRange(n2) THEN [res |-> "IndexError", adj |-> a]
    ELSE LET i == Norm(n1)
             j == Norm(n2)
             a1 == [a EXCEPT ![i][j] = @ - 1]
             a2 == [a1 EXCEPT ![j][i] = @ - 1]
         IN  [res |-> "ok", adj |-> a2]

\* as remove_edge, but only the [n1][n2] entry is decremented
remove_edge_one_sided(a, n1, n2) ==
    IF n1 = n2 THEN [res |-> "SelfLoop", adj |-> a]
    ELSE IF ~InRange(n1) \/ ~InRange(n2) THEN [res |-> "IndexError", adj |-> a]
    ELSE LET i == Norm(n1)
             j == Norm(n2)
         IN  IF a[i][j] = 0 \/ a[j][i] = 0
             THEN [res |-> "MissingEdge", adj |-> a]
             ELSE [res |-> "ok", adj |-> [a EXCEPT ![i][j] = @ - 1]]

remove_edge(a, n1, n2) ==
    IF n1 = n2 THEN [res |-> "SelfLoop", adj |-> a]
    ELSE IF ~InRange(n1) \/ ~InRange(n2) THEN [res |-> "IndexError", adj |-> a]
    ELSE LET i == Norm(n1)
             j == Norm(n2)
         IN  IF a[i][j] = 0 \/ a[j][i] = 0
             THEN [res |-> "MissingEdge", adj |-> a]
             ELSE LET a1 == [a EXCEPT ![i][j] = @ - 1]
                      a2 == [a1 EXCEPT ![j][i] = @ - 1]
                  IN  [res |-> "ok", adj |-> a2]

\* as change_node_property, but y is stored into every row
change_node_property_all_rows(nd, dt, n1, y) ==
    IF Len(y) # D THEN [res |-> "DimensionMismatch", nodes |-> nd]
    ELSE IF ~InRange(n1) THEN [res |-> "IndexError", nodes |-> nd]
    ELSE [res |-> "ok",
          nodes |-> [i \in NodeIds |-> [k \in 1..D |-> CastTo(dt, y[k])]]]

change_node_property(nd, dt, n1, y) ==
    IF Len(y) # D THEN [res |-> "DimensionMismatch", nodes |-> nd]
    ELSE IF ~InRange(n1) THEN [res |-> "IndexError", nodes |-> nd]
    ELSE [res |-> "ok",
          nodes |-> [nd EXCEPT ![Norm(n1)] = [k \in 1..D |-> CastTo(dt, y[k])]]]

(***************************************************************************)
(* Mutation instructions, as handed to apply_maps.  form says whether the  *)
(* instruction is a two-element list whose second element is a tuple;      *)
(* nargs is the length of that tuple; n1, n2, y are its contents (the edge *)
(* maps read n1, n2; the property map reads n1, y).                        *)
(***************************************************************************)
Instr(f, k, c, a, b, v) ==
    [form |-> f, key |-> k, nargs |-> c, n1 |-> a, n2 |-> b, y |-> v]

NoVec == <<>>
\* [0.5, ..., 0.5] of length D and [1.0, ..., 1.0] of length D - 1
GoodVec == ConstVec(D, 1)
ShortVec == ConstVec(D - 1, 2)

\* instructions found anywhere in a batch
BatchInstrs ==
    { Instr("list2", "+", 2, 0, 1, NoVec),
      Instr("list2", "-", 2, 0, 1, NoVec),
      Instr("list2", "+", 2, 0, 0, NoVec),
      Instr("list2", "np", 2, 0, 0, GoodVec),
      Instr("list2", "np", 2, 0, 0, ShortVec),
      Instr("list2", "add_edge", 2, 0, 1, NoVec),
      Instr("list2", "+", 3, 0, 1, NoVec) }

\* further instructions, handed over alone
LoneInstrs ==
    { Instr("list2", "remove_edge", 2, 0, 1, NoVec),
      Instr("list2", "set_node_property", 2, 0, 0, GoodVec),
      Instr("list2", "np", 1, 0, 0, NoVec),
      Instr("tuple", "+", 2, 0, 1, NoVec),
      Instr("list2", "-", 2, -1, N - 1, NoVec) }

RECURSIVE BatchesOfLen(_)
BatchesOfLen(len) ==
    IF len = 0 THEN {<<>>}
    ELSE {Append(b, mi) : b \in BatchesOfLen(len - 1), mi \in BatchInstrs}

Batches ==
    UNION {BatchesOfLen(len) : len \in 0..MaxBatch} \cup {<<mi>> : mi \in LoneInstrs}

\* the registry keyed by the operations' long names
MapKeys_long_names == {"add_edge", "remove_edge", "set_node_property"}

\* self.maps: the registered keys
MapKeys == {"+", "-", "np"}

\* __code__.co_argcount of the method registered under k: self and two more
co_argcount(k) == 3
ExpectedArgs(k) == co_argcount(k) - 1

\* the checks apply_maps makes on one instruction before it applies it
CheckInstr(mi) ==
    IF mi.form # "list2" THEN "BadForm"
    ELSE IF mi.key \notin MapKeys THEN "BadKey"
    ELSE IF mi.nargs # ExpectedArgs(mi.key) THEN "BadArity"
    ELSE "ok"

\* self.maps[mi[0]](*mi[1]) on the state s = [adj, nodes]
Dispatch(s, dt, mi) ==
    IF mi.key = "+"
    THEN LET r == add_edge(s.adj, mi.n1, mi.n2)
         IN  [res |-> r.res, adj |-> r.adj, nodes |-> s.nodes]
    ELSE IF mi.key = "-"
    THEN LET r == remove_edge(s.adj, mi.n1, mi.n2)
         IN  [res |-> r.res, adj |-> r.adj, nodes |-> s.nodes]
    ELSE LET r == change_node_property(s.nodes, dt, mi.n1, mi.y)
         IN  [res |-> r.res, adj |-> s.adj, nodes |-> r.nodes]

\* the loop of apply_maps from instruction k on: each instruction is checked
\* and then applied before the next one is looked at; the first failure
\* ends the call.  done counts the instructions applied.
RECURSIVE apply_from(_, _, _, _)
apply_from(s, dt, maps, k) ==
    IF k > Len(maps)
    THEN [res |-> "ok", adj |-> s.adj, nodes |-> s.nodes, done |-> k - 1]
    ELSE LET chk == CheckInstr(maps[k])
         IN  IF chk # "ok"
             THEN [res |-> chk, adj |-> s.adj, nodes |-> s.nodes, done |-> k - 1]
             ELSE LET r == Dispatch(s, dt, maps[k])
                  IN  IF r.res # "ok"
                      THEN [res |-> r.res, adj |-> r.adj, nodes |-> r.nodes,
                            done |-> k - 1]
                      ELSE apply_from([adj |-> r.adj, nodes |-> r.nodes],
                                      dt, maps, k + 1)

apply_maps(a, nd, dt, maps) == apply_from([adj |-> a, nodes |-> nd], dt, maps, 1)

(***************************************************************************)
(* State of one System and the record of the last call made on it.         *)
(***************************************************************************)
VARIABLES
    adj,        \* self.adj
    nodes,      \* self.nodes
    dtype,      \* dtype of self.nodes
    adjArg,     \* whether the constructor was given an adjacency
    pc,         \* "idle": the caller may call; "returned": a call has just ended
    steps,      \* calls made so far
    last,       \* the call that has just ended: what was asked, its outcome,
                \* the state before it
    added,      \* per unordered pair of nodes: successful add_edge calls
    removed,    \* per unordered pair of nodes: successful remove_edge calls
    rule,       \* the last InterAction(...) call: its arguments and outcome
    model,      \* the last Model(...) call: its arguments and outcome
    sim         \* the simulation engine running on the System

sysvars == <<adj, nodes, dtype, adjArg, pc, steps, last, added, removed>>

NodePairs == {p \in SUBSET NodeIds : Cardinality(p) = 2}

NoInstr == Instr("none", "none", 0, 0, 0, NoVec)

NoCall ==
    [op |-> "none", n1 |-> 0, n2 |-> 0, y |-> NoVec, maps |-> <<>>,
     res |-> "none", done |-> 0, preAdj |-> <<>>, preNodes |-> <<>>]

Call(o, mi, b, r, dn) ==
    [op |-> o, n1 |-> mi.n1, n2 |-> mi.n2, y |-> mi.y, maps |-> b,
     res |-> r, done |-> dn, preAdj |-> adj, preNodes |-> nodes]

SysInit ==
    /\ \/ adjArg = "none" /\ adj = Eye
       \/ adjArg = "given" /\ adj \in InitialAdjs
    /\ nodes = InitialNodes
    /\ dtype \in DTypes
    /\ pc = "idle"
    /\ steps = 0
    /\ last = NoCall
    /\ added = [p \in NodePairs |-> 0]
    /\ removed = [p \in NodePairs |-> 0]

\* the successful edge instructions among the first dn of batch b, on pair p
RECURSIVE CountOn(_, _, _, _)
CountOn(b, dn, k, p) ==
    IF dn = 0 THEN 0
    ELSE CountOn(b, dn - 1, k, p)
         + (IF b[dn].key = k /\ {Norm(b[dn].n1), Norm(b[dn].n2)} = p THEN 1 ELSE 0)

Tally(b, dn) ==
    /\ added' = [p \in NodePairs |-> added[p] + CountOn(b, dn, "+", p)]
    /\ removed' = [p \in NodePairs |-> removed[p] + CountOn(b, dn, "-", p)]

CanCall == pc = "idle" /\ steps < MaxSteps

AddEdge(n1, n2) ==
    /\ CanCall
    /\ LET r == add_edge(adj, n1, n2)
           mi == Instr("list2", "+", 2, n1, n2, NoVec)
           dn == IF r.res = "ok" THEN 1 ELSE 0
       IN  /\ adj' = r.adj
           /\ last' = Call("add_edge", mi, <<>>, r.res, dn)
           /\ Tally(<<mi>>, dn)
    /\ pc' = "returned"
    /\ steps' = steps + 1
    /\ UNCHANGED <<nodes, dtype, adjArg, rule, model, sim>>

RemoveEdge(n1, n2) ==
    /\ CanCall
    /\ LET r == remove_edge(adj, n1, n2)
           mi == Instr("list2", "-", 2, n1, n2, NoVec)
           dn == IF r.res = "ok" THEN 1 ELSE 0
       IN  /\ adj' = r.adj
           /\ last' = Call("remove_edge", mi, <<>>, r.res, dn)
           /\ Tally(<<mi>>, dn)
    /\ pc' = "returned"
    /\ steps' = steps + 1
    /\ UNCHANGED <<nodes, dtype, adjArg, rule, model, sim>>

ChangeNodeProperty(n1, y) ==
    /\ CanCall
    /\ LET r == change_node_property(nodes, dtype, n1, y)
           mi == Instr("list2", "np", 2, n1, 0, y)
           dn == IF r.res = "ok" THEN 1 ELSE 0
       IN  /\ nodes' = r.nodes
           /\ last' = Call("change_node_property", mi, <<>>, r.res, dn)
    /\ pc' = "returned"
    /\ steps' = steps + 1
    /\ UNCHANGED <<adj, dtype, adjArg, added, removed, rule, model, sim>>

ApplyMaps(maps) ==
    /\ CanCall
    /\ LET r == apply_maps(adj, nodes, dtype, maps)
       IN  /\ adj' = r.adj
           /\ nodes' = r.nodes
           /\ last' = Call("apply_maps", NoInstr, maps, r.res, r.done)
           /\ Tally(maps, r.done)
    /\ pc' = "returned"
    /\ steps' = steps + 1
    /\ UNCHANGED <<dtype, adjArg, rule, model, sim>>

\* the call has ended (returned or raised): control is back with the caller,
\* which may make the next call on the state the call left
Resume ==
    /\ pc = "returned"
    /\ steps < MaxSteps
    /\ pc' = "idle"
    /\ last' = NoCall
    /\ UNCHANGED <<adj, nodes, dtype, adjArg, steps, added, removed, rule, model, sim>>

(***************************************************************************)
(* InterAction: validation of the callables at construction.  A signature  *)
(* is the ordered parameter list inspect.signature reports.                *)
(***************************************************************************)
\* longest positional parameter list of a rate function
MaxPositional == 3

Annotations == {"int", "System", "empty"}
KwNames == {"beta", "gamma"}
KwValues == 1..2

Param(nm, kd, an, hd, df) ==
    [name |-> nm, kind |-> kd, ann |-> an, hasDefault |-> hd, default |-> df]

RECURSIVE PositionalsOfLen(_)
PositionalsOfLen(len) ==
    IF len = 0 THEN {<<>>}
    ELSE {Append(ps, Param("p", "POSITIONAL_OR_KEYWORD", an, FALSE, 0)) :
            ps \in PositionalsOfLen(len - 1), an \in Annotations}

Positionals == UNION {PositionalsOfLen(len) : len \in 2..MaxPositional}

\* declarations of one keyword-only parameter: without default, with default 1
KwDecls(nm) ==
    {<<>>, <<Param(nm, "KEYWORD_ONLY", "empty", FALSE, 0)>>,
           <<Param(nm, "KEYWORD_ONLY", "empty", TRUE, 1)>>}

RateSignatures ==
    {ps \o kb \o kg : ps \in Positionals, kb \in KwDecls("beta"),
                      kg \in KwDecls("gamma")}

\* **kwargs of the constructor: a value for some of the names
KwargsSets == UNION {[ks -> KwValues] : ks \in SUBSET KwNames}

\* a map function is known by its parameter count; an update function is
\* absent or known by its parameter count and its return annotation
MapSignatures == 2..3
NoUpdate == [present |-> FALSE, nparams |-> 0, ret |-> "empty"]
UpdateSignatures ==
    {NoUpdate} \cup
    {[present |-> TRUE, nparams |-> n, ret |-> r] :
        n \in 2..3, r \in {"ndarray", "None", "empty"}}

ExpectedTypes == <<"int", "int", "System">>

RECURSIVE check_first_three_params(_, _)
check_first_three_params(params, i) ==
    IF i > Len(ExpectedTypes) THEN "ok"
    ELSE IF i > Len(params) THEN "IndexError"
    ELSE IF params[i].ann # ExpectedTypes[i] THEN "BadRateSignature"
    ELSE check_first_three_params(params, i + 1)

\* as check_keyword_params, without the assertion that the name is bound
RECURSIVE check_keyword_params_no_presence(_, _, _)
check_keyword_params_no_presence(params, kwargs, i) ==
    IF i > Len(params) THEN "ok"
    ELSE LET p == params[i]
         IN  IF /\ p.kind = "KEYWORD_ONLY"
                /\ p.name \in DOMAIN kwargs
                /\ p.hasDefault
                /\ kwargs[p.name] # p.default
             THEN "ParameterMismatch"
             ELSE check_keyword_params_no_presence(params, kwargs, i + 1)

RECURSIVE check_keyword_params(_, _, _)
check_keyword_params(params, kwargs, i) ==
    IF i > Len(params) THEN "ok"
    ELSE LET p == params[i]
         IN  IF p.kind = "KEYWORD_ONLY" /\ p.name \notin DOMAIN kwargs
             THEN "MissingBoundParameter"
             ELSE IF /\ p.kind = "KEYWORD_ONLY"
                     /\ p.hasDefault
                     /\ kwargs[p.name] # p.default
             THEN "ParameterMismatch"
             ELSE check_keyword_params(params, kwargs, i + 1)

validate_rate_function(params, kwargs) ==
    LET r == check_first_three_params(params, 1)
    IN  IF r # "ok" THEN r ELSE check_keyword_params(params, kwargs, 1)

validate_map_function(nparams) ==
    IF nparams = 3 THEN "ok" ELSE "InvalidMapSignature"

validate_update_function(u) ==
    IF ~u.present THEN "ok"
    ELSE IF u.nparams # 2 THEN "InvalidUpdateSignature"
    ELSE IF u.ret \notin {"ndarray", "None"} THEN "InvalidUpdateSignature"
    ELSE "ok"

\* InterAction.__init__: the three validations in order, then the fields
InterAction_init(rf, mf, uf, kwargs) ==
    LET r1 == validate_rate_function(rf, kwargs)
        r2 == validate_map_function(mf)
        r3 == validate_update_function(uf)
        res == IF r1 # "ok" THEN r1 ELSE IF r2 # "ok" THEN r2 ELSE r3
    IN  [res |-> res, rate_func |-> rf, map_func |-> mf, update_func |-> uf,
         kwargs |-> kwargs, n_body |-> IF res = "ok" THEN 2 ELSE 0]

NoRule ==
    [res |-> "none", rate_func |-> <<>>, map_func |-> 0, update_func |-> NoUpdate,
     kwargs |-> <<>>, n_body |-> 0]

(***************************************************************************)
(* Model: the composition root.                                            *)
(***************************************************************************)
\* longest interaction list handed to Model
MaxRules == 2

\* elements of the interactions list: InterAction instances and other objects
Elements ==
    {[isInterAction |-> TRUE, id |-> i] : i \in 1..2} \cup
    {[isInterAction |-> FALSE, id |-> 0]}

RECURSIVE ListsOfLen(_)
ListsOfLen(len) ==
    IF len = 0 THEN {<<>>}
    ELSE {Append(l, e) : l \in ListsOfLen(len - 1), e \in Elements}

InteractionLists == UNION {ListsOfLen(len) : len \in 0..MaxRules}

Methods == {"gillespie_direct", "direct", "tau_leaping"}
\* the method table with the short name registered as well
method_maps_with_direct == {"gillespie_direct", "direct"}

method_maps == {"gillespie_direct"}

\* node data by number of axes; adjacency argument absent, N x N, or not N x N
NodeDims == 1..2
AdjArgs == {"none", "square", "misshapen"}

\* System.__init__: the two shape assertions
System_init(ndim, adjarg) ==
    IF ndim # 2 THEN [res |-> "AssertionError", adj |-> <<>>]
    ELSE IF adjarg = "none" THEN [res |-> "ok", adj |-> Eye]
    ELSE IF adjarg = "misshapen" THEN [res |-> "AssertionError", adj |-> <<>>]
    ELSE [res |-> "ok", adj |-> GivenAdj(0, 0)]

NoModel ==
    [res |-> "none", time |-> 0, systems |-> <<>>, interactions |-> <<>>,
     method |-> "none", simulation |-> "none",
     args |-> [interactions |-> <<>>, ndim |-> 0, adj |-> "none", method |-> "none"]]

\* Model.__init__ followed by _initialize_simulation
Model_init(interactions, ndim, adjarg, method) ==
    LET args == [interactions |-> interactions, ndim |-> ndim, adj |-> adjarg,
                 method |-> method]
        sys == System_init(ndim, adjarg)
        fail(e) == [NoModel EXCEPT !.res = e, !.args = args]
    IN  IF \E k \in 1..Len(interactions) : ~interactions[k].isInterAction
        THEN fail("TypeError")
        ELSE IF sys.res # "ok" THEN fail(sys.res)
        ELSE IF method \notin method_maps THEN fail("UnknownMethod")
        ELSE [res |-> "ok", time |-> 0, systems |-> <<sys.adj>>,
              interactions |-> interactions, method |-> method,
              simulation |-> "GillespieSimulation", args |-> args]

(***************************************************************************)
(* The simulation engine: Gillespie's direct method.  The source declares  *)
(* GillespieSimulation and lists its duties (initialize, search and        *)
(* select, update); the algorithm below is the design document's.          *)
(***************************************************************************)
\* the values drawn for -ln(u), in whole units
Draws == 1..2
\* step attempts allowed beyond one per unordered pair of nodes
MaxExtraSteps == 1

PairCount == (N * (N - 1)) \div 2
StepCap == PairCount + MaxExtraSteps

\* the clock is an exact fraction in lowest terms
RECURSIVE GCD(_, _)
GCD(a, b) == IF b = 0 THEN a ELSE GCD(b, a % b)

Frac(n, d) == LET g == GCD(n, d) IN [num |-> n \div g, den |-> d \div g]

FracAdd(q, n, d) == Frac(q.num * d + n * q.den, q.den * d)

ClockZero == [num |-> 0, den |-> 1]

\* caller-supplied interactions, by the name of their rate function:
\*   zero        never fires
\*   connect     rate 1 on unconnected pairs, adds the edge
\*   always      rate 1 on every pair, adds the edge
\*   disconnect  rate 1 on connected pairs, removes the edge
\*   mark        rate 1 while node i does not carry GoodVec, stores GoodVec
rate_func(r, i, j, a, nd) ==
    CASE r = "zero" -> 0
      [] r = "connect" -> IF a[i][j] = 0 THEN 1 ELSE 0
      [] r = "always" -> 1
      [] r = "disconnect" -> IF a[i][j] > 0 THEN 1 ELSE 0
      [] r = "mark" -> IF nd[i] # GoodVec THEN 1 ELSE 0

map_func(r, i, j) ==
    CASE r = "disconnect" -> <<Instr("list2", "-", 2, i, j, NoVec)>>
      [] r = "mark" -> <<Instr("list2", "np", 2, i, i, GoodVec)>>
      [] OTHER -> <<Instr("list2", "+", 2, i, j, NoVec)>>

\* the interaction lists a model is run with, in construction order
EngineRuleLists ==
    { <<"zero">>, <<"connect">>, <<"always">>, <<"disconnect">>, <<"mark">>,
      <<"zero", "connect">> }

\* as get_propensity, but the first index is passed twice
get_propensity_first_index_twice(r, i, j, a, nd) == rate_func(r, i, i, a, nd)

\* InterAction.get_propensity
get_propensity(r, i, j, a, nd) == rate_func(r, i, j, a, nd)

\* InterAction.get_map
get_map(r, i, j) == map_func(r, i, j)

\* initialization: one table per rule, an entry per ordered pair i # j
PropensityTable(rules, a, nd) ==
    [k \in 1..Len(rules) |->
        [i \in NodeIds |->
            [j \in NodeIds |->
                IF i = j THEN 0 ELSE get_propensity(rules[k], i, j, a, nd)]]]

\* the entries in selection order: rules in construction order, row-major
\* within a rule's table
EntryCount(table) == Len(table) * N * N
EntryRule(p) == p \div (N * N) + 1
EntryRow(p) == (p % (N * N)) \div N
EntryCol(p) == p % N
Entry(table, p) == table[EntryRule(p)][EntryRow(p)][EntryCol(p)]

RECURSIVE SumUpTo(_, _)
SumUpTo(table, p) ==
    IF p < 0 THEN 0 ELSE SumUpTo(table, p - 1) + Entry(table, p)

TotalPropensity(table) == SumUpTo(table, EntryCount(table) - 1)

\* the first entry at which the cumulative sum meets or exceeds the target:
\* the scan from entry p on, with the target less the sum of the entries
\* before p still to be met
RECURSIVE ScanFrom(_, _, _)
ScanFrom(table, remaining, p) ==
    IF Entry(table, p) >= remaining THEN p
    ELSE ScanFrom(table, remaining - Entry(table, p), p + 1)

Select(table, target) == ScanFrom(table, target, 0)

NoSim ==
    [state |-> "none", rules |-> <<>>, clock |-> ClockZero, table |-> <<>>,
     a0 |-> 0, fired |-> 0, attempts |-> 0, error |-> "none",
     initAdj |-> <<>>, initNodes |-> <<>>]

GillespieSimulation_init(rules, a, nd) ==
    LET table == PropensityTable(rules, a, nd)
    IN  [state |-> "Ready", rules |-> rules, clock |-> ClockZero, table |-> table,
         a0 |-> TotalPropensity(table), fired |-> 0, attempts |-> 0,
         error |-> "none", initAdj |-> a, initNodes |-> nd]

\* step 1: nothing can fire
absorb(s) == [s EXCEPT !.state = "Absorbed", !.attempts = @ + 1]

\* steps 2 to 6 on engine s: e is the drawn -ln(u), r the outcome of
\* applying the selected rule's map, table the propensities recomputed on
\* the System the map left (no rule has an update function, so every entry
\* is stale)
fire(s, e, r, table) ==
    LET s1 == [s EXCEPT !.clock = FracAdd(s.clock, e, s.a0), !.attempts = @ + 1]
    IN  IF r.res # "ok"
        THEN [s1 EXCEPT !.state = "Failed", !.error = "InvalidMutation"]
        ELSE IF \E q \in 0..(EntryCount(table) - 1) : Entry(table, q) < 0
        THEN [s1 EXCEPT !.state = "Failed", !.fired = @ + 1,
                        !.error = "NegativePropensity"]
        ELSE [s1 EXCEPT !.fired = @ + 1, !.table = table,
                        !.a0 = TotalPropensity(table)]

(***************************************************************************)
(* Specifications                                                          *)
(***************************************************************************)
vars == <<adj, nodes, dtype, adjArg, pc, steps, last, added, removed, rule, model, sim>>

Construct(rf, mf, uf, kwargs) ==
    /\ rule.res = "none"
    /\ rule' = InterAction_init(rf, mf, uf, kwargs)
    /\ UNCHANGED <<sysvars, model, sim>>

Build(interactions, ndim, adjarg, method) ==
    /\ model.res = "none"
    /\ model' = Model_init(interactions, ndim, adjarg, method)
    /\ UNCHANGED <<sysvars, rule, sim>>

\* one System and the calls made on it
Init == SysInit /\ rule = NoRule /\ model = NoModel /\ sim = NoSim

Next ==
    \/ \E n1 \in Indices, n2 \in Indices : AddEdge(n1, n2)
    \/ \E n1 \in Indices, n2 \in Indices : RemoveEdge(n1, n2)
    \/ \E n1 \in Indices, y \in Vectors : ChangeNodeProperty(n1, y)
    \/ \E maps \in Batches : ApplyMaps(maps)
    \/ Resume

Spec == Init /\ [][Next]_vars

\* no System under call: the default one, untouched
InitDefault == Init /\ adjArg = "none" /\ dtype = "float"

\* the construction of one InterAction
NextInterAction ==
    /\ rule.res = "none"
    /\ \E rf \in RateSignatures, mf \in MapSignatures, uf \in UpdateSignatures,
          kwargs \in KwargsSets : Construct(rf, mf, uf, kwargs)

SpecInterAction == InitDefault /\ [][NextInterAction]_vars

\* the construction of one Model
NextModel ==
    /\ model.res = "none"
    /\ \E interactions \in InteractionLists, ndim \in NodeDims, adjarg \in AdjArgs,
          method \in Methods : Build(interactions, ndim, adjarg, method)

SpecModel == InitDefault /\ [][NextModel]_vars

\* the engine is created over the System as constructed
StartEngine(rules) ==
    /\ sim.state = "none"
    /\ sim' = GillespieSimulation_init(rules, adj, nodes)
    /\ UNCHANGED <<sysvars, rule, model>>

\* step 1 of the step algorithm: total propensity zero
Absorb ==
    /\ sim.a0 <= 0
    /\ sim' = absorb(sim)
    /\ UNCHANGED <<sysvars, rule, model>>

\* steps 2 to 6: e is the drawn -ln(u), target the drawn u2 * A0 rounded up
Fire(e, target) ==
    /\ sim.a0 > 0
    /\ \E p \in {Select(sim.table, target)} :
       \E r \in {apply_maps(adj, nodes, dtype,
                            get_map(sim.rules[EntryRule(p)], EntryRow(p), EntryCol(p)))} :
       \E table \in {PropensityTable(sim.rules, r.adj, r.nodes)} :
          /\ sim' = fire(sim, e, r, table)
          /\ adj' = r.adj
          /\ nodes' = r.nodes
    /\ UNCHANGED <<dtype, adjArg, pc, steps, last, added, removed, rule, model>>

\* the caller asks for one more step
StepEngine ==
    /\ sim.state \in {"Ready", "Absorbed"}
    /\ sim.attempts < StepCap
    /\ \/ Absorb
       \/ \E e \in Draws, target \in 1..sim.a0 : Fire(e, target)

\* the System the engine runs on: the default one, one without edges, or a
\* complete simple graph
InitEngine ==
    /\ Init
    /\ dtype = "float"
    /\ adj \in {Eye, GivenAdj(0, 0), GivenAdj(0, 1)}

NextEngine ==
    \/ \E rules \in EngineRuleLists : StartEngine(rules)
    \/ StepEngine

SpecEngine == InitEngine /\ [][NextEngine]_vars

\* a caller that runs the engine until Absorbed keeps asking for steps
SpecEngineFair == SpecEngine /\ WF_vars(StepEngine)

(***************************************************************************)
(* Properties of System                                                    *)
(***************************************************************************)
EdgeCall == last.op \in {"add_edge", "remove_edge"}

\* the last call named two nodes that exist and differ
DistinctNodes ==
    /\ InRange(last.n1) /\ InRange(last.n2)
    /\ Norm(last.n1) # Norm(last.n2)

LastPair == {Norm(last.n1), Norm(last.n2)}

\* C1: the adjacency of a System constructed with a symmetric adjacency is
\* symmetric in every reachable state, whatever add_edge / remove_edge calls
\* (direct or through apply_maps, succeeding or failing) have been made.
C1_AdjacencySymmetric ==
    \A i \in NodeIds, j \in NodeIds : adj[i][j] = adj[j][i]

\* a successful remove_edge following a successful add_edge
C1_Witness ==
    /\ last.op = "remove_edge" /\ last.res = "ok"
    /\ adj # last.preAdj
    /\ \E p \in NodePairs : added[p] > 0

\* C2 (as claimed): a batch that apply_maps rejects for an unknown key or a
\* wrong argument count leaves nodes and adjacency as they were before the
\* call, wherever the malformed instruction sits.
C2_MalformedBatchAppliesNothing ==
    (last.op = "apply_maps" /\ last.res \in {"BadKey", "BadArity"})
        => (adj = last.preAdj /\ nodes = last.preNodes)

\* C3: add_edge(i, i) and remove_edge(i, i) fail with the self-loop error
\* and leave nodes and adjacency unchanged, for every index i.
C3_SelfLoopRejected ==
    (EdgeCall /\ last.n1 = last.n2)
        => /\ last.res = "SelfLoop"
           /\ adj = last.preAdj
           /\ nodes = last.preNodes

\* remove_edge(i, i) on a node whose diagonal entry is not 0, so that only
\* the self-loop check stands between the call and a decrement
C3_Witness ==
    /\ last.op = "remove_edge" /\ last.n1 = last.n2 /\ InRange(last.n1)
    /\ last.preAdj[Norm(last.n1)][Norm(last.n1)] = 1
    /\ last.res = "SelfLoop"

\* C4 (as claimed): add_edge between two distinct nodes that already share
\* an edge (multiplicity >= 1) fails with the duplicate-edge error and leaves
\* the adjacency unchanged.
C4_ExistingEdgeRejected ==
    (last.op = "add_edge" /\ DistinctNodes
     /\ last.preAdj[Norm(last.n1)][Norm(last.n2)] >= 1)
        => (last.res = "DuplicateEdge" /\ adj = last.preAdj)

\* C5: on a System built without an adjacency argument, remove_edge on two
\* distinct nodes succeeds only if more add_edge than remove_edge calls have
\* succeeded on that pair before it; otherwise it fails with the missing-edge
\* error.
C5_RemoveNeedsAdd ==
    (adjArg = "none" /\ last.op = "remove_edge" /\ DistinctNodes)
        => LET addsBefore == added[LastPair]
               removesBefore == removed[LastPair] - last.done
           IN  /\ last.res = "ok" => addsBefore > removesBefore
               /\ ~(addsBefore > removesBefore) => last.res = "MissingEdge"

\* a remove_edge that fails on a pair whose one edge was added and removed
\* again before
C5_Witness ==
    /\ adjArg = "none" /\ last.op = "remove_edge" /\ DistinctNodes
    /\ added[LastPair] = 1 /\ removed[LastPair] = 1
    /\ last.res = "MissingEdge"

\* C6 (as claimed): set_node_property(i, v) fails and leaves nodes unchanged
\* when the length of v differs from D; when it equals D the call succeeds
\* and node i's vector equals v afterwards; every node's vector has width D
\* in every reachable state.
C6_PropertySetAsGiven ==
    /\ \A i \in NodeIds : Len(nodes[i]) = D
    /\ (last.op = "change_node_property" /\ InRange(last.n1))
        => IF Len(last.y) # D
           THEN last.res # "ok" /\ nodes = last.preNodes
           ELSE last.res = "ok" /\ nodes[Norm(last.n1)] = last.y

\* C7 (as claimed): the keys apply_maps accepts are exactly "add_edge",
\* "remove_edge" and "set_node_property": a first instruction with one of
\* them and two arguments is dispatched, one with any other key is rejected.
SpecKeys == {"add_edge", "remove_edge", "set_node_property"}

C7_SpecKeysAccepted ==
    (last.op = "apply_maps" /\ Len(last.maps) >= 1
     /\ last.maps[1].form = "list2")
        => LET mi == last.maps[1]
           IN  /\ (mi.key \in SpecKeys /\ mi.nargs = 2) => last.res # "BadKey"
               /\ mi.key \notin SpecKeys => (last.res = "BadKey" /\ last.done = 0)

\* C7 (amended): the keys apply_maps accepts are exactly "+", "-" and "np",
\* each with two arguments: a batch of one such instruction has the outcome
\* and the effect of _add_edge, _remove_edge, _change_node_property on those
\* arguments; an instruction with any other key is rejected and nothing is
\* applied from it on.
C7_RegisteredKeysDispatched ==
    (last.op = "apply_maps" /\ Len(last.maps) = 1
     /\ last.maps[1].form = "list2")
        => LET mi == last.maps[1]
               e == IF mi.key = "+" THEN add_edge(last.preAdj, mi.n1, mi.n2)
                    ELSE remove_edge(last.preAdj, mi.n1, mi.n2)
               c == change_node_property(last.preNodes, dtype, mi.n1, mi.y)
           IN  /\ (mi.key \in {"+", "-"} /\ mi.nargs = 2)
                    => /\ last.res = e.res
                       /\ adj = e.adj
                       /\ nodes = last.preNodes
               /\ (mi.key = "np" /\ mi.nargs = 2)
                    => /\ last.res = c.res
                       /\ nodes = c.nodes
                       /\ adj = last.preAdj
               /\ mi.key \notin {"+", "-", "np"}
                    => /\ last.res = "BadKey"
                       /\ adj = last.preAdj
                       /\ nodes = last.preNodes

\* a one-instruction batch with key "+" that added the edge
C7_Witness ==
    /\ last.op = "apply_maps" /\ Len(last.maps) = 1
    /\ last.maps[1].key = "+" /\ last.maps[1].nargs = 2
    /\ last.res = "ok" /\ last.done = 1
    /\ adj # last.preAdj

(***************************************************************************)
(* Properties of InterAction                                               *)
(***************************************************************************)
KwOnly(rf) == {k \in 1..Len(rf) : rf[k].kind = "KEYWORD_ONLY"}

\* some keyword-only parameter has no default and no bound value
UnboundRequired(rf, kwargs) ==
    \E k \in KwOnly(rf) : ~rf[k].hasDefault /\ rf[k].name \notin DOMAIN kwargs

\* the first three parameters are annotated int, int, System
FirstThreeValid(rf) ==
    /\ Len(rf) >= 3
    /\ \A k \in 1..3 : rf[k].ann = ExpectedTypes[k]

\* the map function takes three parameters; the update function is absent or
\* takes two and is declared to return an ndarray or None
MapAndUpdateValid(mf, uf) ==
    /\ mf = 3
    /\ uf.present => (uf.nparams = 2 /\ uf.ret \in {"ndarray", "None"})

\* every keyword-only parameter is bound, to its default if it declares one
AllBound(rf, kwargs) ==
    \A k \in KwOnly(rf) :
        /\ rf[k].name \in DOMAIN kwargs
        /\ rf[k].hasDefault => kwargs[rf[k].name] = rf[k].default

\* C8: constructing an InterAction whose rate function has a keyword-only
\* parameter without default and without bound value fails (with the
\* missing-parameter error when nothing else is wrong with the rate
\* function); with the bound value supplied, and rate, map and update
\* functions otherwise valid, it succeeds.
C8_UnboundKeywordFails ==
    rule.res # "none" =>
        LET rf == rule.rate_func
            kw == rule.kwargs
        IN  /\ UnboundRequired(rf, kw) => rule.res # "ok"
            /\ (UnboundRequired(rf, kw) /\ FirstThreeValid(rf)
                /\ \A k \in KwOnly(rf) : ~rf[k].hasDefault)
                  => rule.res = "MissingBoundParameter"
            /\ (FirstThreeValid(rf) /\ AllBound(rf, kw)
                /\ MapAndUpdateValid(rule.map_func, rule.update_func))
                  => (rule.res = "ok" /\ rule.n_body = 2)

\* a rule built with its one keyword-only, default-less parameter bound
C8_Witness ==
    /\ rule.res = "ok"
    /\ \E k \in KwOnly(rule.rate_func) :
          /\ ~rule.rate_func[k].hasDefault
          /\ rule.rate_func[k].name \in DOMAIN rule.kwargs

\* C9 (as claimed): a rate function whose keyword-only parameters all have
\* defaults never fails construction with the missing-parameter error.
C9_DefaultsNeedNoBinding ==
    (rule.res # "none"
     /\ \A k \in KwOnly(rule.rate_func) : rule.rate_func[k].hasDefault)
        => rule.res # "MissingBoundParameter"

(***************************************************************************)
(* Properties of Model                                                     *)
(***************************************************************************)
AllInterActions(l) == \A k \in 1..Len(l) : l[k].isInterAction

NodeDataValid(a) == a.ndim = 2 /\ a.adj # "misshapen"

\* C10: building a Model fails with TypeError if some element of the list
\* is not an InterAction; with a list of InterActions and well-shaped node
\* data it fails with the unknown-method error if the method is not
\* "gillespie_direct", and otherwise yields a model with one System, the
\* interactions in the order given and a GillespieSimulation.
C10_ModelBuild ==
    model.res # "none" =>
        LET a == model.args
        IN  /\ ~AllInterActions(a.interactions) => model.res = "TypeError"
            /\ (AllInterActions(a.interactions) /\ NodeDataValid(a)
                /\ a.method # "gillespie_direct")
                  => (model.res = "UnknownMethod" /\ model.simulation = "none")
            /\ (AllInterActions(a.interactions) /\ NodeDataValid(a)
                /\ a.method = "gillespie_direct")
                  => /\ model.res = "ok"
                     /\ Len(model.systems) = 1
                     /\ model.interactions = a.interactions
                     /\ model.simulation = "GillespieSimulation"

\* a model built from two different InterActions
C10_Witness ==
    /\ model.res = "ok"
    /\ Len(model.interactions) = 2
    /\ model.interactions[1] # model.interactions[2]
    /\ model.simulation = "GillespieSimulation"

(***************************************************************************)
(* Further properties of System                                            *)
(***************************************************************************)
\* C14: a successful add_edge / remove_edge on two distinct nodes i, j
\* changes adj[i][j] and adj[j][i] by exactly +1 / -1 and nothing else,
\* neither in adj nor in nodes; a successful set_node_property changes no
\* node vector but node i's and leaves adj unchanged.
C14_OnlyTargetTouched ==
    /\ (EdgeCall /\ last.res = "ok" /\ DistinctNodes)
        => LET i == Norm(last.n1)
               j == Norm(last.n2)
               delta == IF last.op = "add_edge" THEN 1 ELSE 0 - 1
           IN  /\ adj[i][j] = last.preAdj[i][j] + delta
               /\ adj[j][i] = last.preAdj[j][i] + delta
               /\ \A a \in NodeIds, b \in NodeIds :
                      {a, b} # {i, j} => adj[a][b] = last.preAdj[a][b]
               /\ nodes = last.preNodes
    /\ (last.op = "change_node_property" /\ last.res = "ok")
        => /\ adj = last.preAdj
           /\ \A k \in NodeIds \ {Norm(last.n1)} : nodes[k] = last.preNodes[k]

\* a set_node_property that changed its node's vector
C14_Witness ==
    /\ last.op = "change_node_property" /\ last.res = "ok"
    /\ nodes[Norm(last.n1)] # last.preNodes[Norm(last.n1)]

StructuralErrors == {"SelfLoop", "DuplicateEdge", "MissingEdge", "DimensionMismatch"}

\* C15: when an instruction of a batch fails for a structural reason, nodes
\* and adjacency are those that the instructions before it left (they are
\* applied, the failing one has no effect, no later one is applied), and the
\* adjacency is symmetric.
C15_FailingInstructionHasNoEffect ==
    (last.op = "apply_maps" /\ last.res \in StructuralErrors)
        => LET before == apply_maps(last.preAdj, last.preNodes, dtype,
                                    SubSeq(last.maps, 1, last.done))
           IN  /\ last.done < Len(last.maps)
               /\ before.res = "ok"
               /\ adj = before.adj
               /\ nodes = before.nodes
               /\ \A i \in NodeIds, j \in NodeIds : adj[i][j] = adj[j][i]

\* a batch whose first instruction was applied and whose second one failed
\* as a duplicate edge
C15_Witness ==
    /\ last.op = "apply_maps" /\ last.res = "DuplicateEdge"
    /\ last.done = 1
    /\ adj # last.preAdj

\* C16 (as claimed): no add_edge / remove_edge that is accepted, called
\* directly or through apply_maps, with whatever integer indices, changes
\* a diagonal entry of the adjacency.
C16_DiagonalUntouched ==
    (last.op \in {"add_edge", "remove_edge", "apply_maps"} /\ last.res = "ok")
        => \A k \in NodeIds : adj[k][k] = last.preAdj[k][k]

\* C17 (as claimed): from an adjacency of non-negative entries only
\* adjacencies of non-negative entries are reached.
C17_EntriesNonNegative ==
    \A i \in NodeIds, j \in NodeIds : adj[i][j] >= 0

\* C18 (as claimed): on two distinct nodes, the remove_edge that follows a
\* successful add_edge succeeds and restores the adjacency, and the add_edge
\* that follows a successful remove_edge succeeds and restores the adjacency.
C18_AddRemoveInverse ==
    /\ (last.op = "add_edge" /\ last.res = "ok" /\ DistinctNodes)
        => LET r == remove_edge(adj, last.n1, last.n2)
           IN  r.res = "ok" /\ r.adj = last.preAdj
    /\ (last.op = "remove_edge" /\ last.res = "ok" /\ DistinctNodes)
        => LET r == add_edge(adj, last.n1, last.n2)
           IN  r.res = "ok" /\ r.adj = last.preAdj

\* C18 (amended): on two distinct nodes, the remove_edge that follows a
\* successful add_edge succeeds and restores the adjacency; the add_edge that
\* follows a successful remove_edge of the last edge between the two nodes
\* (multiplicity 1) succeeds and restores the adjacency.
C18_AddRemoveInverseLastEdge ==
    /\ (last.op = "add_edge" /\ last.res = "ok" /\ DistinctNodes)
        => LET r == remove_edge(adj, last.n1, last.n2)
           IN  r.res = "ok" /\ r.adj = last.preAdj
    /\ (last.op = "remove_edge" /\ last.res = "ok" /\ DistinctNodes
        /\ last.preAdj[Norm(last.n1)][Norm(last.n2)] = 1)
        => LET r == add_edge(adj, last.n1, last.n2)
           IN  r.res = "ok" /\ r.adj = last.preAdj

\* an add_edge that succeeded on a pair from which an edge had been removed
C18_Witness ==
    /\ last.op = "add_edge" /\ last.res = "ok" /\ DistinctNodes
    /\ removed[LastPair] > 0

(***************************************************************************)
(* Properties of the engine                                                *)
(***************************************************************************)
Started == sim.state # "none"

\* every rule's rate is zero on every ordered pair of the initial System
AllZeroAtStart ==
    /\ Started
    /\ \A k \in 1..Len(sim.rules) : \A i \in NodeIds : \A j \in NodeIds \ {i} :
           rate_func(sim.rules[k], i, j, sim.initAdj, sim.initNodes) = 0

\* an Absorbed engine stays Absorbed and leaves clock and System alone
AbsorbedIsTerminal ==
    sim.state = "Absorbed"
        => /\ sim'.state = "Absorbed"
           /\ sim'.clock = sim.clock
           /\ sim'.fired = sim.fired
           /\ adj' = adj
           /\ nodes' = nodes

ConnectAllScenario ==
    /\ Started
    /\ sim.rules = <<"connect">>
    /\ sim.initAdj = GivenAdj(0, 0)

AllPairsConnected ==
    \A i \in NodeIds : \A j \in NodeIds \ {i} : adj[i][j] = 1

ConnectAllDone ==
    /\ sim.state = "Absorbed"
    /\ sim.fired = PairCount
    /\ sim.error = "none"
    /\ AllPairsConnected

====
